---- MODULE Spec2Model ----
(***************************************************************************)
(* Verification model of the Pivotal -> JIRA migration tool.               *)
(*                                                                         *)
(*   services/migration.go      ImportIssues, processRecord,              *)
(*                              UploadAttachments, RunMigration            *)
(*   services/csv_processor.go  ReadCSV, LoadIssueMapping,                *)
(*                              UpdateJiraKeysWithErrorFlags               *)
(*   api/jira_client.go         retryOnRateLimit, CheckAuth, UpdateStatus  *)
(*   config/config.go           LoadConfig, getEnvAsIntWithDefault         *)
(*   cmd/*/main.go              the -concurrent flag                       *)
(*                                                                         *)
(* Strings of the program are TLA+ strings.  The ledger file is a header   *)
(* row and data rows, each a sequence of fields; of the columns of the     *)
(* JIRA CSV it keeps the ones the engine reads or writes: "JIRA Issue ID", *)
(* "JIRA Issue Key" and, when present, "Error".  Indexes are 1-based and   *)
(* 0 stands for the -1 ("no such column") of the source.                   *)
(***************************************************************************)
EXTENDS Integers, Sequences, FiniteSets, TLC

\* ------------------------------------------------------------------ bounds
MaxRecords == 2     \* data rows of the ledger
MaxLimit   == 2     \* largest configured MaxConcurrent
MaxRuns    == 2     \* invocations of ImportIssues on the same ledger file
MaxFiles   == 2     \* files below the attachment root
MaxItems   == 4     \* ledger rows and files together in one upload run
MaxBody    == 2     \* bytes of a request body

\* ------------------------------------------------------- value vocabulary
\* Names of the source identifiers and of the keys the remote tracker hands
\* out; the tables are longer than any index the bounds can reach.
IdNames   == <<"p1", "p2", "p3", "p4", "p5", "p6">>
IssueKeys == <<"PRJ-1", "PRJ-2", "PRJ-3", "PRJ-4", "PRJ-5", "PRJ-6", "PRJ-7",
               "PRJ-8", "PRJ-9", "PRJ-10", "PRJ-11", "PRJ-12", "PRJ-13",
               "PRJ-14", "PRJ-15", "PRJ-16">>

SourceIDs == {""} \cup {IdNames[k] : k \in 1..MaxRecords}

\* The key the tracker assigns to the issue created for row i in run r:
\* every successful create yields a key no other create yields.
NewIssueKey(r, i) == IssueKeys[(r - 1) * MaxRecords + i]

Max(a, b) == IF a > b THEN a ELSE b

\* A finite map as a function on a finite domain.
EmptyMap == <<>>
HasKey(m, k) == k \in DOMAIN m
MapPut(m, k, v) == [x \in (DOMAIN m) \cup {k} |-> IF x = k THEN v ELSE m[x]]

VARIABLES
    ledger,         \* the JIRA CSV file: [header, rows]
    attachments,    \* attachment root: folder name -> number of files in it
    MaxConcurrent,  \* config.MaxConcurrent
    pc,             \* position of the main goroutine
    op,             \* the operation the locals below belong to
    run,            \* ImportIssues invocations so far
    retval,         \* what the last operation returned: "none", "nil", "error"
    records,        \* ImportIssues: the records ReadCSV returned
    idx,            \* goroutines spawned so far by the running loop
    semaphore,      \* number of tokens in the buffered channel
    wg,             \* WaitGroup counter
    wpc,            \* position of each spawned goroutine
    wres,           \* goroutine arguments and locals: [id, key, err, calls]
    resultMutex,    \* holder of resultMutex (0: unlocked)
    resultMapping,  \* models.IssueMapping built by ImportIssues
    errorFlags,     \* map[string]bool built by ImportIssues
    errorCount,     \* ImportIssues error counter
    report,         \* counts of the completion log line of ImportIssues
    lastFailed,     \* ids whose CreateIssue failed in the latest ImportIssues
    issueMapping,   \* UploadAttachments: result of LoadIssueMapping
    scan,           \* UploadAttachments: [dir, file, counted] loop position
    countMutex,     \* holder of countMutex (0: unlocked)
    counters,       \* [total, uploaded, failed]
    rt,             \* retryOnRateLimit: request, attempts and result
    pr,             \* processRecord: the record, the position, the calls made
    rm              \* RunMigration: the flags, the position, the phases run

engineVars == <<ledger, attachments, MaxConcurrent, pc, op, run,
                retval, records, idx, semaphore, wg, wpc, wres, resultMutex,
                resultMapping, errorFlags, errorCount, report, lastFailed,
                issueMapping, scan, countMutex, counters>>
vars == <<engineVars, rt, pr, rm>>

poolVars   == <<idx, semaphore, wg, wpc, wres>>
importVars == <<records, resultMutex, resultMapping, errorFlags, errorCount,
                report, lastFailed>>
uploadVars == <<attachments, issueMapping, scan, countMutex, counters>>

\* ------------------------------------------------------------- CSV ledger
ColID    == "JIRA Issue ID"
ColKey   == "JIRA Issue Key"
ColError == "Error"
ErrorKey == "ERROR"

\* The header loops of the readers: the index of the last column called
\* name, 0 when there is none.
ColumnIndex(headers, name) ==
    LET hits == {i \in 1..Len(headers) : headers[i] = name}
    IN  IF hits = {} THEN 0 ELSE CHOOSE i \in hits : \A j \in hits : j <= i

\* csv.Reader.ReadAll with the default FieldsPerRecord: every record must
\* have as many fields as the first record of the file, the header.
ReadAllOk(file) ==
    \A i \in 1..Len(file.rows) : Len(file.rows[i]) = Len(file.header)

\* A models.CSVRecord: header name -> value; a missing name reads as "".
Field(rec, name) == IF name \in DOMAIN rec THEN rec[name] ELSE ""

RowRecord(headers, row) ==
    LET n == IF Len(headers) < Len(row) THEN Len(headers) ELSE Len(row)
    IN  [h \in {headers[j] : j \in 1..n} |->
            row[CHOOSE j \in 1..n :
                    headers[j] = h /\ \A k \in 1..n : headers[k] = h => k <= j]]

\* CSVProcessor.ReadCSV: [err, records], one record for every data row.
ReadCSV_SkipsImported(file) ==
    IF ~ReadAllOk(file) \/ Len(file.rows) < 1
    THEN [err |-> TRUE, records |-> <<>>]
    ELSE LET open == SelectSeq(file.rows,
                         LAMBDA row : Field(RowRecord(file.header, row), ColKey)
                                          \in {"", ErrorKey})
         IN  [err |-> FALSE,
              records |-> [i \in 1..Len(open) |-> RowRecord(file.header, open[i])]]

ReadCSV(file) ==
    IF ~ReadAllOk(file) \/ Len(file.rows) < 1
    THEN [err |-> TRUE, records |-> <<>>]
    ELSE [err |-> FALSE,
          records |-> [i \in 1..Len(file.rows) |->
                          RowRecord(file.header, file.rows[i])]]

\* CSVProcessor.LoadIssueMapping: [err, mapping].  Rows are visited in file
\* order, a later row of the same id overwrites an earlier one.
RECURSIVE MappingOfRows_EmptyKeyToo(_, _, _, _)
MappingOfRows_EmptyKeyToo(rows, idIndex, keyIndex, n) ==
    IF n = 0 THEN EmptyMap
    ELSE LET rest == MappingOfRows_EmptyKeyToo(rows, idIndex, keyIndex, n - 1)
             row  == rows[n]
         IN  IF Len(row) < Max(idIndex, keyIndex) THEN rest
             ELSE IF row[idIndex] # "" /\ row[keyIndex] # ErrorKey
                  THEN MapPut(rest, row[idIndex], row[keyIndex])
                  ELSE rest

RECURSIVE MappingOfRows(_, _, _, _)
MappingOfRows(rows, idIndex, keyIndex, n) ==
    IF n = 0 THEN EmptyMap
    ELSE LET rest == MappingOfRows(rows, idIndex, keyIndex, n - 1)
             row  == rows[n]
         IN  IF Len(row) < Max(idIndex, keyIndex) THEN rest
             ELSE IF row[idIndex] # "" /\ row[keyIndex] # ""
                     /\ row[keyIndex] # ErrorKey
                  THEN MapPut(rest, row[idIndex], row[keyIndex])
                  ELSE rest

LoadIssueMapping(file) ==
    LET idIndex  == ColumnIndex(file.header, ColID)
        keyIndex == ColumnIndex(file.header, ColKey)
    IN  IF ~ReadAllOk(file) \/ Len(file.rows) < 1
           \/ idIndex = 0 \/ keyIndex = 0
        THEN [err |-> TRUE, mapping |-> EmptyMap]
        ELSE [err |-> FALSE,
              mapping |-> MappingOfRows(file.rows, idIndex, keyIndex,
                                        Len(file.rows))]

\* The body of the merge loop of UpdateJiraKeysWithErrorFlags for one row.
MergeRow_KeepPriorFlag(row, idIndex, keyIndex, errorIndex, mapping, flags) ==
    IF Len(row) < Max(idIndex, keyIndex) THEN row
    ELSE IF HasKey(mapping, row[idIndex])
         THEN [row EXCEPT ![keyIndex] = mapping[row[idIndex]],
                          ![errorIndex] =
                              IF HasKey(flags, row[idIndex]) /\ flags[row[idIndex]]
                              THEN "1"
                              ELSE IF row[errorIndex] = "" THEN "0"
                                   ELSE row[errorIndex]]
         ELSE row

MergeRow(row, idIndex, keyIndex, errorIndex, mapping, flags) ==
    IF Len(row) < Max(idIndex, keyIndex) THEN row
    ELSE IF HasKey(mapping, row[idIndex])
         THEN [row EXCEPT ![keyIndex] = mapping[row[idIndex]],
                          ![errorIndex] =
                              IF HasKey(flags, row[idIndex]) /\ flags[row[idIndex]]
                              THEN "1" ELSE "0"]
         ELSE row

\* CSVProcessor.UpdateJiraKeysWithErrorFlags: [err, file], file being what
\* the ledger holds afterwards.  When the header has no "Error" column the
\* name is appended to the local slice headers only: records[0], which is
\* what is written back, keeps its fields, while every data row gets one
\* more field.
UpdateJiraKeysWithErrorFlags(file, mapping, flags) ==
    LET idIndex  == ColumnIndex(file.header, ColID)
        keyIndex == ColumnIndex(file.header, ColKey)
        errIndex == ColumnIndex(file.header, ColError)
        errorIndex == IF errIndex = 0 THEN Len(file.header) + 1 ELSE errIndex
        rows1 == IF errIndex = 0
                 THEN [i \in 1..Len(file.rows) |-> Append(file.rows[i], "")]
                 ELSE file.rows
    IN  IF ~ReadAllOk(file) \/ Len(file.rows) < 1
           \/ idIndex = 0 \/ keyIndex = 0
        THEN [err |-> TRUE, file |-> file]
        ELSE [err |-> FALSE,
              file |-> [header |-> file.header,
                        rows |-> [i \in 1..Len(rows1) |->
                                     MergeRow(rows1[i], idIndex, keyIndex,
                                              errorIndex, mapping, flags)]]]

\* ------------------------------------------------------------ initial state
\* Source identifiers are named in order of first appearance (p1 before p2
\* before p3): renaming identifiers changes nothing the program does.  Rows
\* may share an identifier and may have an empty one.
InOrderOfAppearance(ids) ==
    \A i \in 1..Len(ids) :
        \/ ids[i] = ""
        \/ \E k \in 1..MaxRecords :
              /\ ids[i] = IdNames[k]
              /\ k = 1 \/ \E j \in 1..(i - 1) : ids[j] = IdNames[k - 1]

InitialHeaders == {<<ColID, ColKey>>, <<ColID, ColKey, ColError>>}

\* A ledger as the conversion step or the user leaves it: no key yet, and
\* an empty "Error" field when the file has that column.
InitialRow(h, id) == IF Len(h) = 3 THEN <<id, "", "">> ELSE <<id, "">>

InitialLedgers ==
    UNION { { [header |-> h, rows |-> [i \in 1..n |-> InitialRow(h, ids[i])]] :
                ids \in {f \in [1..n -> SourceIDs] : InOrderOfAppearance(f)} } :
            h \in InitialHeaders, n \in 1..MaxRecords }

\* Folders of the attachment root, in the order os.ReadDir lists them.
AttDirs == <<IdNames[1], IdNames[2], "zz">>
FilesBelow(root) == root[AttDirs[1]] + root[AttDirs[2]] + root[AttDirs[3]]
AttachmentRoots ==
    {root \in [{AttDirs[k] : k \in 1..Len(AttDirs)} -> 0..MaxFiles] :
        FilesBelow(root) <= MaxFiles}

\* The attachment roots an upload run may find beside a ledger.
RootsBeside(l) ==
    {root \in AttachmentRoots : Len(l.rows) + FilesBelow(root) <= MaxItems}

NoAttachments == [d \in {AttDirs[k] : k \in 1..Len(AttDirs)} |-> 0]
NoCounters == [total |-> 0, uploaded |-> 0, failed |-> 0]
NoScan == [dir |-> 1, file |-> 0, counted |-> FALSE]
NoReport == [success |-> 0, failure |-> 0]
RtOff == [pc |-> "off"]
PrOff == [pc |-> "off"]
RmOff == [pc |-> "off"]

EngineInit ==
    /\ ledger \in InitialLedgers
    /\ MaxConcurrent \in 1..MaxLimit
    /\ attachments = NoAttachments
    /\ pc = "idle"
    /\ op = "none"
    /\ run = 0
    /\ retval = "none"
    /\ records = <<>>
    /\ idx = 0
    /\ semaphore = 0
    /\ wg = 0
    /\ wpc = <<>>
    /\ wres = <<>>
    /\ resultMutex = 0
    /\ resultMapping = EmptyMap
    /\ errorFlags = EmptyMap
    /\ errorCount = 0
    /\ report = NoReport
    /\ lastFailed = {}
    /\ issueMapping = EmptyMap
    /\ scan = NoScan
    /\ countMutex = 0
    /\ counters = NoCounters

Init == EngineInit /\ rt = RtOff /\ pr = PrOff /\ rm = RmOff

\* ------------------------------------------------- channel and wait group
\* semaphore <- struct{}{} on a channel of capacity limit proceeds only
\* while the buffer has room.
ChanCanSend_Unbounded(tokens, limit) == TRUE
ChanCanSend(tokens, limit) == tokens < limit

\* wg.Wait() returns only when the counter is zero.
WaitReturns_Immediately(counter, tokens) == TRUE
WaitReturns(counter, tokens) == counter = 0

\* ------------------------------------------------------------ ImportIssues
\* Lines 57-84: ReadCSV and the setup of the locals.
ImportStart ==
    /\ pc = "idle"
    /\ run < MaxRuns
    /\ run' = run + 1
    /\ op' = "import"
    /\ LET r == ReadCSV(ledger)
       IN  IF r.err
           THEN /\ retval' = "error"
                /\ pc' = "idle"
                /\ records' = <<>>
           ELSE /\ retval' = "none"
                /\ pc' = "import_loop"
                /\ records' = r.records
    /\ idx' = 0
    /\ semaphore' = 0
    /\ wg' = 0
    /\ wpc' = <<>>
    /\ wres' = <<>>
    /\ resultMutex' = 0
    /\ resultMapping' = EmptyMap
    /\ errorFlags' = EmptyMap
    /\ errorCount' = 0
    /\ lastFailed' = {}
    /\ UNCHANGED <<ledger, MaxConcurrent, report, uploadVars, rt, pr, rm>>

\* Lines 87-93: wg.Add(1), the send on the semaphore, the go statement.
ImportDispatch ==
    /\ pc = "import_loop"
    /\ idx < Len(records)
    /\ ChanCanSend(semaphore, MaxConcurrent)
    /\ wg' = wg + 1
    /\ semaphore' = semaphore + 1
    /\ idx' = idx + 1
    /\ wpc' = Append(wpc, "spawned")
    /\ wres' = Append(wres, [id |-> Field(records[idx + 1], ColID),
                             key |-> "", err |-> FALSE, calls |-> 0])
    /\ UNCHANGED <<ledger, MaxConcurrent, pc, op, run, retval,
                   importVars, uploadVars, rt, pr, rm>>

\* processRecord up to the return of CreateIssue (lines 143-188): the call
\* either yields a fresh issue key or fails the record.
WorkerCreateIssue(i) ==
    /\ pc = "import_loop"
    /\ i \in 1..Len(wpc)
    /\ wpc[i] = "spawned"
    /\ \E created \in BOOLEAN :
          IF created
          THEN /\ wres' = [wres EXCEPT ![i].key = NewIssueKey(run, i),
                                       ![i].calls = @ + 1]
               /\ wpc' = [wpc EXCEPT ![i] = "created"]
               /\ lastFailed' = lastFailed
          ELSE /\ wres' = [wres EXCEPT ![i].err = TRUE, ![i].calls = @ + 1]
               /\ wpc' = [wpc EXCEPT ![i] = "returned"]
               /\ lastFailed' = lastFailed \cup {wres[i].id}
    /\ UNCHANGED <<ledger, MaxConcurrent, pc, op, run, retval, idx,
                   semaphore, wg, records, resultMutex, resultMapping,
                   errorFlags, errorCount, report, uploadVars, rt, pr, rm>>

\* processRecord lines 190-217: story points, status and comment; whatever
\* these calls return, the issue key is returned with a nil error.
WorkerBestEffort(i) ==
    /\ pc = "import_loop"
    /\ i \in 1..Len(wpc)
    /\ wpc[i] = "created"
    /\ \E storyPointsOk \in BOOLEAN, statusOk \in BOOLEAN, commentOk \in BOOLEAN :
          wpc' = [wpc EXCEPT ![i] = "returned"]
    /\ UNCHANGED <<ledger, MaxConcurrent, pc, op, run, retval, idx,
                   semaphore, wg, wres, importVars, uploadVars, rt, pr, rm>>

\* Line 105: resultMutex.Lock().
WorkerLock_NoWait(i) ==
    /\ pc = "import_loop"
    /\ i \in 1..Len(wpc)
    /\ wpc[i] = "returned"
    /\ resultMutex' = i
    /\ wpc' = [wpc EXCEPT ![i] = "locked"]
    /\ UNCHANGED <<ledger, MaxConcurrent, pc, op, run, retval, idx,
                   semaphore, wg, wres, records, resultMapping, errorFlags,
                   errorCount, report, lastFailed, uploadVars, rt, pr, rm>>

WorkerLock(i) ==
    /\ pc = "import_loop"
    /\ i \in 1..Len(wpc)
    /\ wpc[i] = "returned"
    /\ resultMutex = 0
    /\ resultMutex' = i
    /\ wpc' = [wpc EXCEPT ![i] = "locked"]
    /\ UNCHANGED <<ledger, MaxConcurrent, pc, op, run, retval, idx,
                   semaphore, wg, wres, records, resultMapping, errorFlags,
                   errorCount, report, lastFailed, uploadVars, rt, pr, rm>>

\* Lines 108-125: the outcome goes into the maps, keyed by the record's id.
WorkerRecord(i) ==
    /\ pc = "import_loop"
    /\ i \in 1..Len(wpc)
    /\ wpc[i] = "locked"
    /\ IF wres[i].err
       THEN /\ errorCount' = errorCount + 1
            /\ errorFlags' = MapPut(errorFlags, wres[i].id, TRUE)
            /\ resultMapping' = MapPut(resultMapping, wres[i].id, ErrorKey)
       ELSE /\ errorCount' = errorCount
            /\ resultMapping' = MapPut(resultMapping, wres[i].id, wres[i].key)
            /\ errorFlags' = MapPut(errorFlags, wres[i].id, FALSE)
    /\ wpc' = [wpc EXCEPT ![i] = "recorded"]
    /\ UNCHANGED <<ledger, MaxConcurrent, pc, op, run, retval, idx,
                   semaphore, wg, wres, records, resultMutex, report,
                   lastFailed, uploadVars, rt, pr, rm>>

\* Line 106, deferred: resultMutex.Unlock().
WorkerUnlock(i) ==
    /\ pc = "import_loop"
    /\ i \in 1..Len(wpc)
    /\ wpc[i] = "recorded"
    /\ resultMutex' = 0
    /\ wpc' = [wpc EXCEPT ![i] = "unlocked"]
    /\ UNCHANGED <<ledger, MaxConcurrent, pc, op, run, retval, idx,
                   semaphore, wg, wres, records, resultMapping, errorFlags,
                   errorCount, report, lastFailed, uploadVars, rt, pr, rm>>

\* Lines 95 and 293, deferred: <-semaphore gives the slot back.
WorkerRelease_KeepsSlot(i) ==
    /\ pc \in {"import_loop", "upload_loop"}
    /\ i \in 1..Len(wpc)
    /\ wpc[i] = "unlocked"
    /\ wpc' = [wpc EXCEPT ![i] = "released"]
    /\ UNCHANGED <<ledger, MaxConcurrent, pc, op, run, retval, idx, semaphore,
                   wg, wres, importVars, uploadVars, rt, pr, rm>>

WorkerRelease(i) ==
    /\ pc \in {"import_loop", "upload_loop"}
    /\ i \in 1..Len(wpc)
    /\ wpc[i] = "unlocked"
    /\ semaphore' = semaphore - 1
    /\ wpc' = [wpc EXCEPT ![i] = "released"]
    /\ UNCHANGED <<ledger, MaxConcurrent, pc, op, run, retval, idx,
                   wg, wres, importVars, uploadVars, rt, pr, rm>>

\* Lines 94 and 292, deferred: wg.Done(), the last step of the goroutine.
WorkerDone(i) ==
    /\ pc \in {"import_loop", "upload_loop"}
    /\ i \in 1..Len(wpc)
    /\ wpc[i] = "released"
    /\ wg' = wg - 1
    /\ wpc' = [wpc EXCEPT ![i] = "done"]
    /\ UNCHANGED <<ledger, MaxConcurrent, pc, op, run, retval, idx,
                   semaphore, wres, importVars, uploadVars, rt, pr, rm>>

\* Lines 129-131: wg.Wait() after the loop, then close(semaphore).
ImportWait ==
    /\ pc = "import_loop"
    /\ idx = Len(records)
    /\ WaitReturns(wg, semaphore)
    /\ pc' = "import_write"
    /\ UNCHANGED <<ledger, MaxConcurrent, op, run, retval, poolVars,
                   importVars, uploadVars, rt, pr, rm>>

\* The success count of the completion line (line 138).
SuccessCount_IgnoresErrors(mapping, errors) == Cardinality(DOMAIN mapping)
SuccessCount(mapping, errors) == Cardinality(DOMAIN mapping) - errors

\* Lines 133-138: the ledger is rewritten and the counts are logged.
ImportWriteLedger ==
    /\ pc = "import_write"
    /\ LET u == UpdateJiraKeysWithErrorFlags(ledger, resultMapping, errorFlags)
       IN  IF u.err
           THEN /\ retval' = "error"
                /\ UNCHANGED <<ledger, report>>
           ELSE /\ retval' = "nil"
                /\ ledger' = u.file
                /\ report' = [success |-> SuccessCount(resultMapping, errorCount),
                              failure |-> errorCount]
    /\ pc' = "import_return"
    /\ UNCHANGED <<MaxConcurrent, op, run, poolVars, records,
                   resultMutex, resultMapping, errorFlags, errorCount,
                   lastFailed, uploadVars, rt, pr, rm>>

\* Lines 135 and 139: ImportIssues returns and its locals are gone.
ImportReturn ==
    /\ pc = "import_return"
    /\ pc' = "idle"
    /\ records' = <<>>
    /\ idx' = 0
    /\ semaphore' = 0
    /\ wg' = 0
    /\ wpc' = <<>>
    /\ wres' = <<>>
    /\ resultMapping' = EmptyMap
    /\ errorFlags' = EmptyMap
    /\ errorCount' = 0
    /\ report' = NoReport
    /\ UNCHANGED <<ledger, MaxConcurrent, op, run, retval,
                   resultMutex, lastFailed, uploadVars, rt, pr, rm>>

\* ------------------------------------------------------- UploadAttachments
\* Lines 221-255: LoadIssueMapping, the locals, the listing of the root.
UploadStart ==
    /\ pc = "idle"
    /\ op' = "upload"
    /\ LET m == LoadIssueMapping(ledger)
       IN  IF m.err
           THEN /\ retval' = "error"
                /\ pc' = "idle"
                /\ issueMapping' = EmptyMap
                /\ attachments' = NoAttachments
           ELSE \/ \* os.Stat reports no directory, or ReadDir fails
                   /\ retval' = "error"
                   /\ pc' = "idle"
                   /\ issueMapping' = EmptyMap
                   /\ attachments' = NoAttachments
                \/ /\ retval' = "none"
                   /\ pc' = "upload_loop"
                   /\ issueMapping' = m.mapping
                   /\ attachments' \in RootsBeside(ledger)
    /\ scan' = NoScan
    /\ countMutex' = 0
    /\ counters' = NoCounters
    /\ idx' = 0
    /\ semaphore' = 0
    /\ wg' = 0
    /\ wpc' = <<>>
    /\ wres' = <<>>
    /\ UNCHANGED <<ledger, MaxConcurrent, run, importVars, rt, pr, rm>>

\* Lines 262-264: the key of the folder under the loop, "" when the mapping
\* has none.
Resolvable_AnyListedKey(mapping, dir) == HasKey(mapping, dir)
Resolvable(mapping, dir) == HasKey(mapping, dir) /\ mapping[dir] # ErrorKey

\* Lines 262-267: a folder without a usable key is passed over.
UploadSkipDir ==
    /\ pc = "upload_loop"
    /\ scan.dir <= Len(AttDirs)
    /\ ~Resolvable(issueMapping, AttDirs[scan.dir])
    /\ scan' = [dir |-> scan.dir + 1, file |-> 0, counted |-> FALSE]
    /\ UNCHANGED <<ledger, MaxConcurrent, pc, op, run, retval,
                   poolVars, importVars, attachments, issueMapping,
                   countMutex, counters, rt, pr, rm>>

\* Lines 277 and 257: the files of the folder are done, on to the next.  A
\* folder os.ReadDir cannot list (lines 271-275) is left like a folder
\* without files.
UploadNextDir ==
    /\ pc = "upload_loop"
    /\ scan.dir <= Len(AttDirs)
    /\ Resolvable(issueMapping, AttDirs[scan.dir])
    /\ scan.file = attachments[AttDirs[scan.dir]]
    /\ scan' = [dir |-> scan.dir + 1, file |-> 0, counted |-> FALSE]
    /\ UNCHANGED <<ledger, MaxConcurrent, pc, op, run, retval,
                   poolVars, importVars, attachments, issueMapping,
                   countMutex, counters, rt, pr, rm>>

\* Lines 282-284: totalFiles++ under countMutex.
UploadCountFile ==
    /\ pc = "upload_loop"
    /\ scan.dir <= Len(AttDirs)
    /\ Resolvable(issueMapping, AttDirs[scan.dir])
    /\ scan.file < attachments[AttDirs[scan.dir]]
    /\ ~scan.counted
    /\ countMutex = 0
    /\ counters' = [counters EXCEPT !.total = @ + 1]
    /\ scan' = [scan EXCEPT !.counted = TRUE]
    /\ UNCHANGED <<ledger, MaxConcurrent, pc, op, run, retval,
                   poolVars, importVars, attachments, issueMapping,
                   countMutex, rt, pr, rm>>

\* Lines 288-291: wg.Add(1), the send on the semaphore, the go statement.
UploadDispatch ==
    /\ pc = "upload_loop"
    /\ scan.dir <= Len(AttDirs)
    /\ scan.counted
    /\ ChanCanSend(semaphore, MaxConcurrent)
    /\ wg' = wg + 1
    /\ semaphore' = semaphore + 1
    /\ idx' = idx + 1
    /\ wpc' = Append(wpc, "uspawned")
    /\ wres' = Append(wres, [id |-> AttDirs[scan.dir],
                             key |-> issueMapping[AttDirs[scan.dir]],
                             err |-> FALSE, calls |-> 0])
    /\ scan' = [scan EXCEPT !.file = @ + 1, !.counted = FALSE]
    /\ UNCHANGED <<ledger, MaxConcurrent, pc, op, run, retval,
                   importVars, attachments, issueMapping, countMutex,
                   counters, rt, pr, rm>>

\* Line 296: UploadAttachment(iKey, fPath) succeeds or fails.
WorkerUpload(i) ==
    /\ pc = "upload_loop"
    /\ i \in 1..Len(wpc)
    /\ wpc[i] = "uspawned"
    /\ \E uploaded \in BOOLEAN :
          wres' = [wres EXCEPT ![i].err = ~uploaded, ![i].calls = @ + 1]
    /\ wpc' = [wpc EXCEPT ![i] = "ureturned"]
    /\ UNCHANGED <<ledger, MaxConcurrent, pc, op, run, retval, idx,
                   semaphore, wg, importVars, uploadVars, rt, pr, rm>>

\* Line 298: countMutex.Lock().
WorkerCountLock(i) ==
    /\ pc = "upload_loop"
    /\ i \in 1..Len(wpc)
    /\ wpc[i] = "ureturned"
    /\ countMutex = 0
    /\ countMutex' = i
    /\ wpc' = [wpc EXCEPT ![i] = "ulocked"]
    /\ UNCHANGED <<ledger, MaxConcurrent, pc, op, run, retval, idx,
                   semaphore, wg, wres, importVars, attachments, issueMapping,
                   scan, counters, rt, pr, rm>>

\* Lines 301-307: failedFiles++ or uploadedFiles++.
WorkerCount_OnlySuccesses(i) ==
    /\ pc = "upload_loop"
    /\ i \in 1..Len(wpc)
    /\ wpc[i] = "ulocked"
    /\ counters' = IF wres[i].err
                   THEN counters
                   ELSE [counters EXCEPT !.uploaded = @ + 1]
    /\ wpc' = [wpc EXCEPT ![i] = "ucounted"]
    /\ UNCHANGED <<ledger, MaxConcurrent, pc, op, run, retval, idx,
                   semaphore, wg, wres, importVars, attachments, issueMapping,
                   scan, countMutex, rt, pr, rm>>

WorkerCount(i) ==
    /\ pc = "upload_loop"
    /\ i \in 1..Len(wpc)
    /\ wpc[i] = "ulocked"
    /\ counters' = IF wres[i].err
                   THEN [counters EXCEPT !.failed = @ + 1]
                   ELSE [counters EXCEPT !.uploaded = @ + 1]
    /\ wpc' = [wpc EXCEPT ![i] = "ucounted"]
    /\ UNCHANGED <<ledger, MaxConcurrent, pc, op, run, retval, idx,
                   semaphore, wg, wres, importVars, attachments, issueMapping,
                   scan, countMutex, rt, pr, rm>>

\* Line 299, deferred: countMutex.Unlock().
WorkerCountUnlock(i) ==
    /\ pc = "upload_loop"
    /\ i \in 1..Len(wpc)
    /\ wpc[i] = "ucounted"
    /\ countMutex' = 0
    /\ wpc' = [wpc EXCEPT ![i] = "unlocked"]
    /\ UNCHANGED <<ledger, MaxConcurrent, pc, op, run, retval, idx,
                   semaphore, wg, wres, importVars, attachments, issueMapping,
                   scan, counters, rt, pr, rm>>

\* Lines 312-314: wg.Wait() after the loops, then close(semaphore).
UploadWait ==
    /\ pc = "upload_loop"
    /\ scan.dir > Len(AttDirs)
    /\ WaitReturns(wg, semaphore)
    /\ pc' = "upload_report"
    /\ UNCHANGED <<ledger, MaxConcurrent, op, run, retval, poolVars,
                   importVars, uploadVars, rt, pr, rm>>

\* Lines 316-319: the totals are logged, nil is returned and the locals are
\* gone.
UploadReport ==
    /\ pc = "upload_report"
    /\ retval' = "nil"
    /\ pc' = "idle"
    /\ attachments' = NoAttachments
    /\ issueMapping' = EmptyMap
    /\ scan' = NoScan
    /\ idx' = 0
    /\ semaphore' = 0
    /\ wg' = 0
    /\ wpc' = <<>>
    /\ wres' = <<>>
    /\ counters' = NoCounters
    /\ UNCHANGED <<ledger, MaxConcurrent, op, run, importVars,
                   countMutex, rt, pr, rm>>

\* ------------------------------------------------------------ specification
Next ==
    \/ ImportStart
    \/ ImportDispatch
    \/ \E i \in 1..Len(wpc) : WorkerCreateIssue(i)
    \/ \E i \in 1..Len(wpc) : WorkerBestEffort(i)
    \/ \E i \in 1..Len(wpc) : WorkerLock(i)
    \/ \E i \in 1..Len(wpc) : WorkerRecord(i)
    \/ \E i \in 1..Len(wpc) : WorkerUnlock(i)
    \/ \E i \in 1..Len(wpc) : WorkerRelease(i)
    \/ \E i \in 1..Len(wpc) : WorkerDone(i)
    \/ ImportWait
    \/ ImportWriteLedger
    \/ ImportReturn
    \/ UploadStart
    \/ UploadSkipDir
    \/ UploadNextDir
    \/ UploadCountFile
    \/ UploadDispatch
    \/ \E i \in 1..Len(wpc) : WorkerUpload(i)
    \/ \E i \in 1..Len(wpc) : WorkerCountLock(i)
    \/ \E i \in 1..Len(wpc) : WorkerCount(i)
    \/ \E i \in 1..Len(wpc) : WorkerCountUnlock(i)
    \/ UploadWait
    \/ UploadReport

Spec == Init /\ [][Next]_vars

\* ------------------------------------------------ one call, run to its end
\* A single call of ImportIssues or UploadAttachments under a scheduler
\* that does not stop while some goroutine can take a step.  Blocking
\* depends on the number of records and files, on the limit and on the
\* outcomes, not on the text of the fields: the ledgers are those of n
\* distinct ids, either fresh or as an import without failures left them.
LiveLedgers ==
    { [header |-> <<ColID, ColKey, ColError>>,
       rows |-> [i \in 1..n |->
                    IF imported THEN <<IdNames[i], IssueKeys[i], "0">>
                    ELSE <<IdNames[i], "", "">>]] :
        n \in 1..MaxRecords, imported \in BOOLEAN }

InitLive ==
    /\ ledger \in LiveLedgers
    /\ MaxConcurrent \in 1..MaxLimit
    /\ attachments = NoAttachments
    /\ pc = "idle"
    /\ op = "none"
    /\ run = 0
    /\ retval = "none"
    /\ records = <<>>
    /\ idx = 0
    /\ semaphore = 0
    /\ wg = 0
    /\ wpc = <<>>
    /\ wres = <<>>
    /\ resultMutex = 0
    /\ resultMapping = EmptyMap
    /\ errorFlags = EmptyMap
    /\ errorCount = 0
    /\ report = NoReport
    /\ lastFailed = {}
    /\ issueMapping = EmptyMap
    /\ scan = NoScan
    /\ countMutex = 0
    /\ counters = NoCounters
    /\ rt = RtOff
    /\ pr = PrOff
    /\ rm = RmOff

NextLive == (pc = "idle" => op = "none") /\ Next

SpecLive == InitLive /\ [][NextLive]_vars /\ WF_vars(NextLive)

\* ------------------------------------------ ledgers without a needed column
\* The engine over the ledgers of Init and over files whose header lacks
\* "JIRA Issue ID" or "JIRA Issue Key": ReadCSV takes any header, the
\* columns are looked for only by UpdateJiraKeysWithErrorFlags (part_002
\* lines 399-412) and LoadIssueMapping.
LackingLedgers ==
    { [header |-> h,
       rows |-> [i \in 1..n |-> <<IF h[1] = ColID THEN IdNames[i] ELSE "">>]] :
        h \in {<<ColID>>, <<ColKey>>}, n \in 1..MaxRecords }

InitColumns ==
    /\ ledger \in InitialLedgers \cup LackingLedgers
    /\ MaxConcurrent \in 1..MaxLimit
    /\ attachments = NoAttachments
    /\ pc = "idle"
    /\ op = "none"
    /\ run = 0
    /\ retval = "none"
    /\ records = <<>>
    /\ idx = 0
    /\ semaphore = 0
    /\ wg = 0
    /\ wpc = <<>>
    /\ wres = <<>>
    /\ resultMutex = 0
    /\ resultMapping = EmptyMap
    /\ errorFlags = EmptyMap
    /\ errorCount = 0
    /\ report = NoReport
    /\ lastFailed = {}
    /\ issueMapping = EmptyMap
    /\ scan = NoScan
    /\ countMutex = 0
    /\ counters = NoCounters
    /\ rt = RtOff
    /\ pr = PrOff
    /\ rm = RmOff

SpecColumns == InitColumns /\ [][Next]_vars

\* ------------------------------------------------- a panic inside a worker
\* The goroutines of lines 93-126 and 291-308 defer wg.Done and the release
\* of the semaphore but never call recover: a panic raised inside
\* processRecord or UploadAttachment unwinds the goroutine, running the two
\* deferred calls, and then ends the whole process.  Until the process is
\* gone the other goroutines keep running.
WorkerPanic(i) ==
    /\ pc \in {"import_loop", "upload_loop"}
    /\ i \in 1..Len(wpc)
    /\ wpc[i] \in {"spawned", "created", "uspawned"}
    /\ wpc' = [wpc EXCEPT ![i] = "panicked"]
    /\ UNCHANGED <<ledger, MaxConcurrent, pc, op, run, retval, idx,
                   semaphore, wg, wres, importVars, uploadVars, rt, pr, rm>>

PanicUnwind(i) ==
    /\ pc \in {"import_loop", "upload_loop"}
    /\ i \in 1..Len(wpc)
    /\ wpc[i] = "panicked"
    /\ semaphore' = semaphore - 1
    /\ wg' = wg - 1
    /\ wpc' = [wpc EXCEPT ![i] = "unwound"]
    /\ UNCHANGED <<ledger, MaxConcurrent, pc, op, run, retval, idx,
                   wres, importVars, uploadVars, rt, pr, rm>>

ProcessCrash ==
    /\ pc # "crashed"
    /\ \E i \in 1..Len(wpc) : wpc[i] = "unwound"
    /\ pc' = "crashed"
    /\ UNCHANGED <<ledger, MaxConcurrent, op, run, retval, poolVars,
                   importVars, uploadVars, rt, pr, rm>>

NextFault ==
    \/ Next
    \/ \E i \in 1..Len(wpc) : WorkerPanic(i)
    \/ \E i \in 1..Len(wpc) : PanicUnwind(i)
    \/ ProcessCrash

SpecFault == Init /\ [][NextFault]_vars

\* ------------------------------------------------ the configured limit
\* config.LoadConfig and the -concurrent flag of the three commands, then
\* the engine with the limit they leave in cfg.MaxConcurrent.
DefaultMaxConcurrent == 10
EnvValues  == {"", "abc", "0", "-1", "1", "2"}     \* MAX_CONCURRENT, "" unset
FlagValues == {-1, 0, 1, 2}                         \* -concurrent, 0 not given

\* strconv.Atoi on the values above.
Atoi(valueStr) ==
    CASE valueStr = "0"  -> [err |-> FALSE, value |-> 0]
      [] valueStr = "-1" -> [err |-> FALSE, value |-> 0 - 1]
      [] valueStr = "1"  -> [err |-> FALSE, value |-> 1]
      [] valueStr = "2"  -> [err |-> FALSE, value |-> 2]
      [] OTHER           -> [err |-> TRUE, value |-> 0]

getEnvAsIntWithDefault(valueStr, defaultValue) ==
    IF valueStr = "" THEN defaultValue
    ELSE IF Atoi(valueStr).err THEN defaultValue
         ELSE Atoi(valueStr).value

InitConfig ==
    /\ ledger \in InitialLedgers
    /\ MaxConcurrent = 0
    /\ attachments = NoAttachments
    /\ pc = "config_env"
    /\ op = "none"
    /\ run = 0
    /\ retval = "none"
    /\ records = <<>>
    /\ idx = 0
    /\ semaphore = 0
    /\ wg = 0
    /\ wpc = <<>>
    /\ wres = <<>>
    /\ resultMutex = 0
    /\ resultMapping = EmptyMap
    /\ errorFlags = EmptyMap
    /\ errorCount = 0
    /\ report = NoReport
    /\ lastFailed = {}
    /\ issueMapping = EmptyMap
    /\ scan = NoScan
    /\ countMutex = 0
    /\ counters = NoCounters
    /\ rt = RtOff
    /\ pr = PrOff
    /\ rm = RmOff

\* config.go line 54: MaxConcurrent from the environment.
ConfigLoad ==
    /\ pc = "config_env"
    /\ \E valueStr \in EnvValues :
          MaxConcurrent' = getEnvAsIntWithDefault(valueStr, DefaultMaxConcurrent)
    /\ pc' = "config_flag"
    /\ UNCHANGED <<ledger, op, run, retval, poolVars, importVars, uploadVars,
                   rt, pr, rm>>

\* cmd/issue_import/main.go lines 48-52 (the same in the other two
\* commands): the flag replaces the value only when it is positive.
ConfigFlag ==
    /\ pc = "config_flag"
    /\ \E maxConcurrent \in FlagValues :
          MaxConcurrent' = IF maxConcurrent > 0 THEN maxConcurrent
                           ELSE MaxConcurrent
    /\ pc' = "idle"
    /\ UNCHANGED <<ledger, op, run, retval, poolVars, importVars, uploadVars,
                   rt, pr, rm>>

\* Lines 78 and 240: make(chan struct{}, n) with a negative n panics.
MakeChanPanic ==
    /\ pc = "idle"
    /\ MaxConcurrent < 0
    /\ pc' = "crashed"
    /\ UNCHANGED <<ledger, MaxConcurrent, op, run, retval, poolVars,
                   importVars, uploadVars, rt, pr, rm>>

NextConfig ==
    \/ ConfigLoad
    \/ ConfigFlag
    \/ MakeChanPanic
    \/ (MaxConcurrent >= 0 /\ Next)

SpecConfig == InitConfig /\ [][NextConfig]_vars

\* --------------------------------------------------------- retryOnRateLimit
StatusTooManyRequests == 429
Statuses == {200, 201, 204, StatusTooManyRequests, 500}
Bytes == {0, 1}

\* What one client.Do yields: a transport error or a response status.
TransportError == [err |-> TRUE, status |-> 0]
Outcomes == {TransportError} \cup {[err |-> FALSE, status |-> st] : st \in Statuses}

\* A request as the callers build it: CheckAuth and GetTransitions pass a
\* nil body, the others a bytes.Buffer holding a non-empty payload, which
\* http.NewRequest also records as the declared ContentLength.
Request(hasBody, payload) ==
    [pc |-> "call", hasBody |-> hasBody, body |-> payload, unread |-> payload,
     contentLength |-> Len(payload), wire |-> <<>>, attempts |-> <<>>,
     result |-> [err |-> FALSE, status |-> 0], sleeps |-> 0, warns |-> 0]

Requests ==
    {Request(FALSE, <<>>)}
    \cup {Request(TRUE, b) : b \in UNION {[1..n -> Bytes] : n \in 1..MaxBody}}

\* Line 417: only a 429 response takes the retry path.
IsRateLimited_OrError(o) == o.err \/ o.status = StatusTooManyRequests
IsRateLimited(o) == ~o.err /\ o.status = StatusTooManyRequests

\* client.Do reads the request body from req.Body: the transport takes the
\* first chunk of the buffer before anything reaches the server, and may
\* or may not have read the rest when the response (or the error) is in.
BodyReads(r) == IF r.hasBody THEN 1..Len(r.unread) ELSE {0}

\* Lines 411-419: the first attempt; an error or a status other than 429 is
\* returned at once.
RetryFirstAttempt ==
    /\ rt.pc = "call"
    /\ \E k \in BodyReads(rt), o \in Outcomes :
          rt' = [rt EXCEPT
                    !.wire = Append(@, SubSeq(rt.unread, 1, k)),
                    !.unread = SubSeq(rt.unread, k + 1, Len(rt.unread)),
                    !.attempts = Append(@, o),
                    !.result = IF IsRateLimited(o) THEN @ ELSE o,
                    !.pc = IF IsRateLimited(o) THEN "limited" ELSE "returned"]
    /\ UNCHANGED <<engineVars, pr, rm>>

\* Lines 421-427: the 429 response is drained and closed, one warning is
\* logged, the goroutine sleeps 10 seconds.
RetryBackoff ==
    /\ rt.pc = "limited"
    /\ rt' = [rt EXCEPT !.warns = @ + 1, !.sleeps = @ + 1, !.pc = "slept"]
    /\ UNCHANGED <<engineVars, pr, rm>>

\* Lines 429-434: req.Body is read to its end and replaced by a buffer of
\* the bytes that were read, that is of what the first attempt had left.
RetryResetBody ==
    /\ rt.pc = "slept"
    /\ LET bodyBytes == rt.unread      \* io.ReadAll of the reader as it stands
       IN  rt' = [rt EXCEPT !.unread = IF rt.hasBody THEN bodyBytes ELSE <<>>,
                            !.pc = "reset"]
    /\ UNCHANGED <<engineVars, pr, rm>>

\* Line 437: the second attempt, whose result is the result of the call.
\* A body shorter than the declared ContentLength makes the transport fail
\* the request.
RetrySecondAttempt ==
    /\ rt.pc = "reset"
    /\ \E o \in Outcomes :
          /\ (rt.hasBody /\ Len(rt.unread) # rt.contentLength) => o = TransportError
          /\ rt' = [rt EXCEPT !.wire = Append(@, rt.unread),
                              !.unread = <<>>,
                              !.attempts = Append(@, o),
                              !.result = o,
                              !.pc = "returned"]
    /\ UNCHANGED <<engineVars, pr, rm>>

\* The engine at rest, for the specifications of single functions.
EngineAtRest ==
    /\ EngineInit
    /\ ledger = [header |-> <<ColID, ColKey>>, rows |-> << <<IdNames[1], "">> >>]
    /\ MaxConcurrent = 1

InitRetry == EngineAtRest /\ rt \in Requests /\ pr = PrOff /\ rm = RmOff

NextRetry ==
    \/ RetryFirstAttempt
    \/ RetryBackoff
    \/ RetryResetBody
    \/ RetrySecondAttempt

SpecRetry == InitRetry /\ [][NextRetry]_vars

\* ------------------------------------- UpdateJiraKeysWithErrorFlags alone
\* The ledger rewrite on its own, over the ledgers an earlier run or the
\* conversion can have left and the outcome maps ImportIssues can build.
\* Between the merge in memory and os.Create the file still holds the old
\* content and the variable records the merged one.
PriorKey == "OLD-7"
PriorCells == {<<"", "">>, <<PriorKey, "0">>, <<ErrorKey, "1">>}

PriorLedgers ==
    UNION { { [header |-> <<ColID, ColKey, ColError>>,
               rows |-> [i \in 1..n |-> <<ids[i]>> \o cells[i]]] :
                 ids \in [1..n -> SourceIDs], cells \in [1..n -> PriorCells] }
            \cup
            { [header |-> <<ColID, ColKey>>,
               rows |-> [i \in 1..n |-> <<ids[i], keys[i]>>]] :
                 ids \in [1..n -> SourceIDs], keys \in [1..n -> {"", PriorKey}] } :
            n \in 1..MaxRecords }

\* The key of the new outcome of an id.
OutcomeKey(id) ==
    IF id = "" THEN IssueKeys[MaxRecords + 1]
    ELSE IssueKeys[CHOOSE k \in 1..MaxRecords : IdNames[k] = id]

OutcomeChoices == [SourceIDs -> {"none", "success", "failure"}]
MappingOf(oc) ==
    [id \in {x \in SourceIDs : oc[x] # "none"} |->
        IF oc[id] = "success" THEN OutcomeKey(id) ELSE ErrorKey]
FlagsOf(oc) ==
    [id \in {x \in SourceIDs : oc[x] # "none"} |-> oc[id] = "failure"]

InitMerge ==
    /\ ledger \in PriorLedgers
    /\ MaxConcurrent = 1
    /\ attachments = NoAttachments
    /\ pc = "merge_call"
    /\ op = "merge"
    /\ run = 0
    /\ retval = "none"
    /\ records = <<>>
    /\ idx = 0
    /\ semaphore = 0
    /\ wg = 0
    /\ wpc = <<>>
    /\ wres = <<>>
    /\ resultMutex = 0
    /\ \E oc \in OutcomeChoices :
          /\ resultMapping = MappingOf(oc)
          /\ errorFlags = FlagsOf(oc)
    /\ errorCount = 0
    /\ report = NoReport
    /\ lastFailed = {}
    /\ issueMapping = EmptyMap
    /\ scan = NoScan
    /\ countMutex = 0
    /\ counters = NoCounters
    /\ rt = RtOff
    /\ pr = PrOff
    /\ rm = RmOff

\* Lines 378-446: the file is read and the outcomes are merged in memory.
MergeInMemory ==
    /\ pc = "merge_call"
    /\ LET u == UpdateJiraKeysWithErrorFlags(ledger, resultMapping, errorFlags)
       IN  IF u.err
           THEN /\ retval' = "error"
                /\ pc' = "merge_done"
                /\ records' = <<>>
           ELSE /\ retval' = "none"
                /\ pc' = "merge_write"
                /\ records' = u.file
    /\ UNCHANGED <<ledger, MaxConcurrent, op, run, poolVars,
                   resultMutex, resultMapping, errorFlags, errorCount, report,
                   lastFailed, uploadVars, rt, pr, rm>>

\* Lines 448-461: the merged records replace the content of the file.
MergeWrite ==
    /\ pc = "merge_write"
    /\ ledger' = records
    /\ retval' = "nil"
    /\ pc' = "merge_done"
    /\ UNCHANGED <<MaxConcurrent, op, run, poolVars, records,
                   resultMutex, resultMapping, errorFlags, errorCount, report,
                   lastFailed, uploadVars, rt, pr, rm>>

NextMerge ==
    \/ MergeInMemory
    \/ MergeWrite

SpecMerge == InitMerge /\ [][NextMerge]_vars

\* ------------------------------------------- the rewrite, write by write
\* Lines 448-461 one system call at a time.  os.Create truncates the ledger
\* file in place, csv.Writer.WriteAll then sends the merged records to it,
\* header first, and flushes.  The process can be stopped between any two
\* of these steps, and each of them can fail.
EmptyFile == [header |-> <<>>, rows |-> <<>>]

\* The records of the file so far, the header being the first.
Written(file) == IF file.header = <<>> THEN 0 ELSE 1 + Len(file.rows)

\* Lines 449-453: os.Create, which leaves an empty file, or its error.
RewriteCreate ==
    /\ pc = "merge_write"
    /\ \/ /\ ledger' = EmptyFile
          /\ pc' = "merge_created"
          /\ UNCHANGED retval
       \/ /\ retval' = "error"
          /\ pc' = "merge_done"
          /\ UNCHANGED ledger
    /\ UNCHANGED <<MaxConcurrent, op, run, poolVars, records,
                   resultMutex, resultMapping, errorFlags, errorCount, report,
                   lastFailed, uploadVars, rt, pr, rm>>

\* Lines 455-458: the next record reaches the file, or the write fails and
\* UpdateJiraKeysWithErrorFlags returns the error.
RewriteRecord ==
    /\ pc = "merge_created"
    /\ Written(ledger) < 1 + Len(records.rows)
    /\ \/ /\ ledger' = IF Written(ledger) = 0
                       THEN [header |-> records.header, rows |-> <<>>]
                       ELSE [ledger EXCEPT
                                !.rows = Append(@, records.rows[Written(ledger)])]
          /\ UNCHANGED <<pc, retval>>
       \/ /\ retval' = "error"
          /\ pc' = "merge_done"
          /\ UNCHANGED ledger
    /\ UNCHANGED <<MaxConcurrent, op, run, poolVars, records,
                   resultMutex, resultMapping, errorFlags, errorCount, report,
                   lastFailed, uploadVars, rt, pr, rm>>

\* Lines 460-461: every record is written, nil is returned.
RewriteFlushed ==
    /\ pc = "merge_created"
    /\ Written(ledger) = 1 + Len(records.rows)
    /\ retval' = "nil"
    /\ pc' = "merge_done"
    /\ UNCHANGED <<ledger, MaxConcurrent, op, run, poolVars, records,
                   resultMutex, resultMapping, errorFlags, errorCount, report,
                   lastFailed, uploadVars, rt, pr, rm>>

\* The process is stopped from outside (a signal, a power cut): nothing of
\* the call runs any more and the file stays as it is.
RewriteInterrupt ==
    /\ pc \in {"merge_call", "merge_write", "merge_created"}
    /\ pc' = "interrupted"
    /\ UNCHANGED <<ledger, MaxConcurrent, op, run, retval, poolVars, records,
                   resultMutex, resultMapping, errorFlags, errorCount, report,
                   lastFailed, uploadVars, rt, pr, rm>>

NextRewrite ==
    \/ MergeInMemory
    \/ RewriteCreate
    \/ RewriteRecord
    \/ RewriteFlushed
    \/ RewriteInterrupt

SpecRewrite == InitMerge /\ [][NextRewrite]_vars

\* ------------------------------------------------------------ processRecord
\* One call of processRecord on one record, step by step, with the calls it
\* makes on the JIRA client (calls) and the HTTP requests these hand to
\* retryOnRateLimit (requests).
ColType        == "Type"
ColStoryPoints == "Story Points"
ColStatus      == "JIRA Status"
ColComment     == "Comment"

\* strings.ToLower on the strings of the vocabulary.
ToLower(s) ==
    CASE s = "Bug"     -> "bug"
      [] s = "Story"   -> "story"
      [] s = "EPIC"    -> "epic"
      [] s = "Backlog" -> "backlog"
      [] s = "BACKLOG" -> "backlog"
      [] s = "Done"    -> "done"
      [] OTHER         -> s

\* fmt.Sscanf(spStr, "%d", &sp) into sp := 0: the leading integer of the
\* text, 0 when there is none.
Sscanf(s) ==
    CASE s = "3"   -> 3
      [] s = "0"   -> 0
      [] s = "-2"  -> 0 - 2
      [] s = "3.5" -> 3
      [] OTHER     -> 0

\* Lines 167-182: the issue type of a record.
IssueTypeOf_CaseSensitive(rec) ==
    IF ColType \in DOMAIN rec /\ rec[ColType] # ""
    THEN CASE rec[ColType] = "bug"                   -> "Bug"
           [] rec[ColType] \in {"feature", "story"}  -> "feature"
           [] rec[ColType] = "chore"                 -> "chore"
           [] rec[ColType] = "epic"                  -> "Epic"
           [] rec[ColType] = "release"               -> "release"
           [] OTHER                                  -> "Task"
    ELSE "Task"

IssueTypeOf(rec) ==
    IF ColType \in DOMAIN rec /\ rec[ColType] # ""
    THEN CASE ToLower(rec[ColType]) = "bug"                   -> "Bug"
           [] ToLower(rec[ColType]) \in {"feature", "story"}  -> "feature"
           [] ToLower(rec[ColType]) = "chore"                 -> "chore"
           [] ToLower(rec[ColType]) = "epic"                  -> "Epic"
           [] ToLower(rec[ColType]) = "release"               -> "release"
           [] OTHER                                           -> "Task"
    ELSE "Task"

\* Lines 191-194 and 202: whether the step calls the client at all.
WantsStoryPoints(rec) ==
    Field(rec, ColStoryPoints) # "" /\ Sscanf(Field(rec, ColStoryPoints)) > 0
WantsStatus(rec) ==
    Field(rec, ColStatus) # "" /\ Field(rec, ColStatus) # "Backlog"
WantsComment(rec) == Field(rec, ColComment) # ""

\* JiraClient.UpdateStatus (lines 228-277) as the set of its possible runs:
\* [ok, requests].  A target that is "backlog" in any letter case returns
\* nil before any request; otherwise the transitions are fetched and, when
\* the target is among them, the transition is posted.
GetTransitionsReq == "GET transitions"
PostTransitionReq == "POST transitions"

UpdateStatus_BacklogExact(targetStatus) ==
    IF targetStatus = "backlog"
    THEN {[ok |-> TRUE, requests |-> <<>>]}
    ELSE {[ok |-> FALSE, requests |-> <<GetTransitionsReq>>],
          [ok |-> FALSE, requests |-> <<GetTransitionsReq, PostTransitionReq>>],
          [ok |-> TRUE,  requests |-> <<GetTransitionsReq, PostTransitionReq>>]}

UpdateStatus(targetStatus) ==
    IF ToLower(targetStatus) = "backlog"
    THEN {[ok |-> TRUE, requests |-> <<>>]}
    ELSE {[ok |-> FALSE, requests |-> <<GetTransitionsReq>>],
          [ok |-> FALSE, requests |-> <<GetTransitionsReq, PostTransitionReq>>],
          [ok |-> TRUE,  requests |-> <<GetTransitionsReq, PostTransitionReq>>]}

\* The records processRecord is called with.
TypeValues        == {"", "bug", "Bug", "feature", "Story", "chore", "EPIC",
                      "release", "spike"}
StoryPointValues  == {"", "0", "3", "-2", "x"}
StatusValues      == {"", "Backlog", "backlog", "BACKLOG", "Done"}
CommentValues     == {"", "hello"}

RecordInputs ==
    { [f \in {ColID, ColType, ColStoryPoints, ColStatus, ColComment} |->
          CASE f = ColID          -> IdNames[1]
            [] f = ColType        -> t
            [] f = ColStoryPoints -> sp
            [] f = ColStatus      -> st
            [] f = ColComment     -> c] :
        t \in TypeValues, sp \in StoryPointValues, st \in StatusValues,
        c \in CommentValues }
    \cup
    \* a CSV without a "Type" column
    { [f \in {ColID, ColStoryPoints, ColStatus, ColComment} |->
          CASE f = ColID          -> IdNames[1]
            [] f = ColStoryPoints -> sp
            [] f = ColStatus      -> st
            [] f = ColComment     -> c] :
        sp \in StoryPointValues, st \in StatusValues, c \in CommentValues }

ProcessRecordCall(rec) ==
    [pc |-> "start", rec |-> rec, issueType |-> "", issueKey |-> "",
     err |-> FALSE, calls |-> <<>>, requests |-> <<>>, warns |-> 0]

\* Lines 143-188: the fields are read, the issue type is chosen and
\* CreateIssue is called; its failure is the failure of the record.
RecordCreateIssue_GoesOn ==
    /\ pr.pc = "start"
    /\ \E created \in BOOLEAN :
          pr' = [pr EXCEPT
                    !.issueType = IssueTypeOf(pr.rec),
                    !.calls = Append(@, [name |-> "CreateIssue", ok |-> created]),
                    !.requests = Append(@, "POST issue"),
                    !.issueKey = IF created THEN IssueKeys[1] ELSE "",
                    !.err = ~created,
                    !.pc = "created"]
    /\ UNCHANGED <<engineVars, rt, rm>>

RecordCreateIssue ==
    /\ pr.pc = "start"
    /\ \E created \in BOOLEAN :
          pr' = [pr EXCEPT
                    !.issueType = IssueTypeOf(pr.rec),
                    !.calls = Append(@, [name |-> "CreateIssue", ok |-> created]),
                    !.requests = Append(@, "POST issue"),
                    !.issueKey = IF created THEN IssueKeys[1] ELSE "",
                    !.err = ~created,
                    !.pc = IF created THEN "created" ELSE "returned"]
    /\ UNCHANGED <<engineVars, rt, rm>>

\* Lines 190-199: UpdateStoryPoints for a positive number of points; its
\* failure is a warning.
RecordStoryPoints ==
    /\ pr.pc = "created"
    /\ IF WantsStoryPoints(pr.rec)
       THEN \E ok \in BOOLEAN :
               pr' = [pr EXCEPT
                         !.calls = Append(@, [name |-> "UpdateStoryPoints", ok |-> ok]),
                         !.requests = Append(@, "PUT issue"),
                         !.warns = IF ok THEN @ ELSE @ + 1,
                         !.pc = "pointed"]
       ELSE pr' = [pr EXCEPT !.pc = "pointed"]
    /\ UNCHANGED <<engineVars, rt, rm>>

\* Lines 201-206: UpdateStatus unless the status is empty or "Backlog"; its
\* failure is a warning.
RecordStatus ==
    /\ pr.pc = "pointed"
    /\ IF WantsStatus(pr.rec)
       THEN \E u \in UpdateStatus(Field(pr.rec, ColStatus)) :
               pr' = [pr EXCEPT
                         !.calls = Append(@, [name |-> "UpdateStatus", ok |-> u.ok]),
                         !.requests = @ \o u.requests,
                         !.warns = IF u.ok THEN @ ELSE @ + 1,
                         !.pc = "statused"]
       ELSE pr' = [pr EXCEPT !.pc = "statused"]
    /\ UNCHANGED <<engineVars, rt, rm>>

\* Lines 208-217: AddComment for a non-empty comment, its failure a warning;
\* then the issue key is returned with a nil error.
RecordComment ==
    /\ pr.pc = "statused"
    /\ IF WantsComment(pr.rec)
       THEN \E ok \in BOOLEAN :
               pr' = [pr EXCEPT
                         !.calls = Append(@, [name |-> "AddComment", ok |-> ok]),
                         !.requests = Append(@, "POST comment"),
                         !.warns = IF ok THEN @ ELSE @ + 1,
                         !.pc = "returned"]
       ELSE pr' = [pr EXCEPT !.pc = "returned"]
    /\ UNCHANGED <<engineVars, rt, rm>>

InitRecord ==
    /\ EngineAtRest
    /\ rt = RtOff
    /\ rm = RmOff
    /\ \E rec \in RecordInputs : pr = ProcessRecordCall(rec)

NextRecord ==
    \/ RecordCreateIssue
    \/ RecordStoryPoints
    \/ RecordStatus
    \/ RecordComment

SpecRecord == InitRecord /\ [][NextRecord]_vars

\* ------------------------------------------------------------- RunMigration
\* One call of RunMigration(convertOnly, importOnly, attachmentsOnly).  The
\* phases are calls that return nil or an error; phases lists, in order,
\* the phases that were called and what each returned.
StatusOK == 200

\* JiraClient.CheckAuth: nil only for a response of status 200.
CheckAuth_AnyResponse(o) == ~o.err
CheckAuth(o) == ~o.err /\ o.status = StatusOK

RunMigrationCall(convertOnly, importOnly, attachmentsOnly) ==
    [pc |-> "start", convertOnly |-> convertOnly, importOnly |-> importOnly,
     attachmentsOnly |-> attachmentsOnly, auth |-> <<>>, phases |-> <<>>,
     result |-> "none"]

\* What the phases return: nil or one of the errors of their return
\* statements (lines 36-50, 62-136 and 226-255).
ConvertResults == {"nil", "read pivotal csv", "convert csv", "write jira csv"}
ImportResults  == {"nil", "read jira csv", "update jira keys"}
UploadResults  == {"nil", "load issue mapping", "no attachments folder",
                   "read attachments folder"}
AuthError == "jira auth"

\* The attempts of one retryOnRateLimit call: one, or two when the first is
\* answered 429; the last one is what the call returns.
RetryRuns ==
    {<<o>> : o \in {x \in Outcomes : ~IsRateLimited(x)}}
    \cup {<<o1, o2>> : o1 \in {x \in Outcomes : IsRateLimited(x)}, o2 \in Outcomes}

\* Lines 327-332: CheckAuth; its error ends the run.
RunCheckAuth ==
    /\ rm.pc = "start"
    /\ \E a \in RetryRuns :
          rm' = [rm EXCEPT
                    !.auth = a,
                    !.result = IF CheckAuth(a[Len(a)]) THEN @ ELSE AuthError,
                    !.pc = IF CheckAuth(a[Len(a)]) THEN "convert"
                           ELSE "returned"]
    /\ UNCHANGED <<engineVars, rt, pr>>

\* Lines 334-340: ConvertCSV unless importOnly or attachmentsOnly; its error
\* is returned.
RunConvert_Unconditional ==
    /\ rm.pc = "convert"
    /\ \E r \in ConvertResults :
          rm' = [rm EXCEPT
                    !.phases = Append(@, [name |-> "Convert", result |-> r]),
                    !.result = IF r # "nil" THEN r ELSE @,
                    !.pc = IF r # "nil" THEN "returned" ELSE "convert_only"]
    /\ UNCHANGED <<engineVars, rt, pr>>

RunConvert ==
    /\ rm.pc = "convert"
    /\ IF ~rm.importOnly /\ ~rm.attachmentsOnly
       THEN \E r \in ConvertResults :
               rm' = [rm EXCEPT
                         !.phases = Append(@, [name |-> "Convert", result |-> r]),
                         !.result = IF r # "nil" THEN r ELSE @,
                         !.pc = IF r # "nil" THEN "returned" ELSE "convert_only"]
       ELSE rm' = [rm EXCEPT !.pc = "convert_only"]
    /\ UNCHANGED <<engineVars, rt, pr>>

\* Lines 342-345: with convertOnly the run ends here with nil.
RunConvertOnly ==
    /\ rm.pc = "convert_only"
    /\ rm' = IF rm.convertOnly
             THEN [rm EXCEPT !.result = "nil", !.pc = "returned"]
             ELSE [rm EXCEPT !.pc = "import"]
    /\ UNCHANGED <<engineVars, rt, pr>>

\* Lines 347-353: ImportIssues unless attachmentsOnly; its error is
\* returned.
RunImport_IgnoresError ==
    /\ rm.pc = "import"
    /\ IF ~rm.attachmentsOnly
       THEN \E r \in ImportResults :
               rm' = [rm EXCEPT
                         !.phases = Append(@, [name |-> "Import", result |-> r]),
                         !.pc = "upload"]
       ELSE rm' = [rm EXCEPT !.pc = "upload"]
    /\ UNCHANGED <<engineVars, rt, pr>>

RunImport ==
    /\ rm.pc = "import"
    /\ IF ~rm.attachmentsOnly
       THEN \E r \in ImportResults :
               rm' = [rm EXCEPT
                         !.phases = Append(@, [name |-> "Import", result |-> r]),
                         !.result = IF r # "nil" THEN r ELSE @,
                         !.pc = IF r # "nil" THEN "returned" ELSE "upload"]
       ELSE rm' = [rm EXCEPT !.pc = "upload"]
    /\ UNCHANGED <<engineVars, rt, pr>>

\* Lines 355-364: UploadAttachments unless importOnly alone; then nil.
RunUpload ==
    /\ rm.pc = "upload"
    /\ IF ~rm.importOnly \/ rm.attachmentsOnly
       THEN \E r \in UploadResults :
               rm' = [rm EXCEPT
                         !.phases = Append(@, [name |-> "Upload", result |-> r]),
                         !.result = r,
                         !.pc = "returned"]
       ELSE rm' = [rm EXCEPT !.result = "nil", !.pc = "returned"]
    /\ UNCHANGED <<engineVars, rt, pr>>

InitRun ==
    /\ EngineAtRest
    /\ rt = RtOff
    /\ pr = PrOff
    /\ \E c \in BOOLEAN, i \in BOOLEAN, a \in BOOLEAN :
          rm = RunMigrationCall(c, i, a)

NextRun ==
    \/ RunCheckAuth
    \/ RunConvert
    \/ RunConvertOnly
    \/ RunImport
    \/ RunUpload

SpecRun == InitRun /\ [][NextRun]_vars

\* =================================================================== claims
\* Goroutines that were spawned and still hold their semaphore slot.
InFlight ==
    Cardinality({i \in 1..Len(wpc) : wpc[i] \notin {"released", "done", "unwound"}})

AllDone == \A i \in 1..Len(wpc) : wpc[i] = "done"

RecordIds == [i \in 1..Len(records) |-> Field(records[i], ColID)]
DistinctIds ==
    \A i, j \in 1..Len(records) : RecordIds[i] = RecordIds[j] => i = j
FailedRows == {i \in 1..Len(wres) : wres[i].err}

\* C1: during ImportIssues and UploadAttachments the goroutines that were
\* dispatched and have not yet given their slot back never number more than
\* MaxConcurrent, and a goroutine is dispatched only when fewer than
\* MaxConcurrent hold a slot (with the pool full the dispatcher waits).
C1_BoundedConcurrency ==
    /\ [](InFlight <= MaxConcurrent /\ semaphore = InFlight)
    /\ [][idx' = idx + 1 => InFlight < MaxConcurrent]_vars

C1_Witness ==
    /\ pc = "import_loop"
    /\ idx < Len(records)
    /\ InFlight = MaxConcurrent

\* C2: when ImportIssues has joined its goroutines, processRecord has run
\* exactly once for every record and there are exactly N outcomes, one for
\* each occurrence of an identifier among the input records.
C2_OneOutcomePerRecord ==
    pc = "import_write" =>
        /\ Len(wres) = Len(records)
        /\ \A i \in 1..Len(wres) : wres[i].calls = 1
        /\ Cardinality(DOMAIN resultMapping) = Len(records)
        /\ \A id \in SourceIDs :
              Cardinality({i \in 1..Len(records) : RecordIds[i] = id})
                  = IF HasKey(resultMapping, id) THEN 1 ELSE 0

\* C3: the ledger write and the return of ImportIssues, and the summary of
\* UploadAttachments, are reached only when every dispatched goroutine has
\* finished and its outcome is in the aggregate; the ledger file changes
\* only then.
C3_JoinBeforeWrite ==
    /\ [](pc \in {"import_write", "import_return", "upload_report"} =>
            /\ AllDone
            /\ op = "import" =>
                  /\ Len(wpc) = Len(records)
                  /\ \A i \in 1..Len(wres) : HasKey(resultMapping, wres[i].id)
            /\ op = "upload" =>
                  /\ counters.uploaded + counters.failed = Len(wpc)
                  /\ counters.total = Len(wpc))
    /\ [][ledger' # ledger => AllDone /\ Len(wpc) = Len(records)]_vars

C3_Witness ==
    /\ pc = "import_return"
    /\ retval = "nil"
    /\ Len(wpc) >= 2
    /\ MaxConcurrent >= 2

\* C4: a panic inside one worker becomes a Failure outcome of that item
\* alone: the process goes on, and when the goroutines are joined the item
\* of the panicked worker is recorded as failed.
C4_PanicBecomesFailure ==
    /\ pc # "crashed"
    /\ pc = "import_write" =>
          \A i \in 1..Len(wpc) :
              wpc[i] = "unwound" =>
                  HasKey(errorFlags, wres[i].id) /\ errorFlags[wres[i].id]

\* C5: one call of retryOnRateLimit sends the request at most twice: once
\* when the first attempt is a transport error or a status other than 429,
\* which is returned without sleep or warning; twice when it is 429, and
\* then the call returns whatever the second attempt yields.
C5_AtMostOneRetry ==
    /\ Len(rt.attempts) <= 2
    /\ Len(rt.wire) = Len(rt.attempts)
    /\ rt.pc = "returned" =>
          IF ~rt.attempts[1].err /\ rt.attempts[1].status = 429
          THEN /\ Len(rt.attempts) = 2
               /\ rt.result = rt.attempts[2]
               /\ rt.sleeps = 1
               /\ rt.warns = 1
          ELSE /\ Len(rt.attempts) = 1
               /\ rt.result = rt.attempts[1]
               /\ rt.sleeps = 0
               /\ rt.warns = 0

C5_Witness ==
    /\ rt.pc = "returned"
    /\ Len(rt.attempts) = 2
    /\ rt.attempts[2].status = 429
    /\ rt.result.status = 429

\* C6: when a request with a body is sent a second time, the body of the
\* second attempt is byte for byte the payload of the request.
C6_RetryBodyIdentical ==
    (rt.hasBody /\ Len(rt.wire) = 2) => rt.wire[2] = rt.body

\* C7: in the merged ledger a row whose id has a new outcome carries the
\* key of that outcome and "0" for a success, "ERROR" and "1" for a
\* failure, whatever it held; a row whose id has no new outcome keeps its
\* key and its Error value.  (Old content: ledger; merged: records.)
C7_LedgerMerge ==
    pc = "merge_write" =>
        /\ Len(records.rows) = Len(ledger.rows)
        /\ \A i \in 1..Len(ledger.rows) :
              LET old == ledger.rows[i]
                  new == records.rows[i]
                  id  == old[1]
              IN  /\ new[1] = id
                  /\ Len(new) = 3
                  /\ IF HasKey(resultMapping, id)
                     THEN IF errorFlags[id]
                          THEN new[2] = ErrorKey /\ new[3] = "1"
                          ELSE new[2] = OutcomeKey(id) /\ new[3] = "0"
                     ELSE /\ new[2] = old[2]
                          /\ new[3] = IF Len(old) = 3 THEN old[3] ELSE ""

C7_Witness ==
    /\ pc = "merge_write"
    /\ \E i, j \in 1..Len(ledger.rows) :
          /\ ledger.rows[i][2] = ErrorKey
          /\ ledger.rows[i][3] = "1"
          /\ records.rows[i][2] = OutcomeKey(ledger.rows[i][1])
          /\ records.rows[i][3] = "0"
          /\ ~HasKey(resultMapping, ledger.rows[j][1])
          /\ records.rows[j][2] = PriorKey

\* C8: a record whose creation failed has "ERROR" and "1" in its ledger row
\* when ImportIssues returns, and a later UploadAttachments makes no upload
\* call for the folder of its id.
C8_ErrorSentinel ==
    /\ (pc = "import_return" /\ retval = "nil") =>
          \A i \in FailedRows :
              ledger.rows[i][2] = ErrorKey /\ ledger.rows[i][3] = "1"
    /\ pc \in {"upload_loop", "upload_report"} =>
          \A i \in 1..Len(wres) : wres[i].id \notin lastFailed

\* C9: with pairwise distinct ids, N records and F failed creations,
\* ImportIssues reports success = N - F and failure = F and the rewritten
\* ledger has exactly F rows with "1" in the Error field.
C9_SummaryCounts ==
    (pc = "import_return" /\ retval = "nil" /\ DistinctIds) =>
        /\ report.success = Len(records) - Cardinality(FailedRows)
        /\ report.failure = Cardinality(FailedRows)
        /\ Cardinality({i \in 1..Len(ledger.rows) : ledger.rows[i][3] = "1"})
              = Cardinality(FailedRows)

C9_Witness ==
    /\ pc = "import_return"
    /\ retval = "nil"
    /\ DistinctIds
    /\ Len(records) >= 2
    /\ Cardinality(FailedRows) = 1
    /\ report = [success |-> Len(records) - 1, failure |-> 1]

\* C10: ImportIssues makes no create-issue call for a record the ledger
\* shows as already imported (a key that is neither empty nor "ERROR", and
\* Error "0"); only failed and never attempted records are processed.
C10_RetriesOnlyFailed ==
    pc \in {"import_loop", "import_write"} =>
        \A i \in 1..Len(wres) :
            (Field(records[i], ColKey) \notin {"", ErrorKey}
             /\ Field(records[i], ColError) = "0") => wres[i].calls = 0

\* C11: every run of ImportIssues makes one create-issue call for every data
\* row of the ledger, whatever the row holds in "JIRA Issue Key" and "Error":
\* a row with a key of an earlier successful run is created again.
C11_EveryRecordReoffered ==
    pc = "import_write" =>
        /\ Len(wres) = Len(ledger.rows)
        /\ \A i \in 1..Len(wres) :
              /\ wres[i].id = ledger.rows[i][ColumnIndex(ledger.header, ColID)]
              /\ wres[i].calls = 1

C11_Witness ==
    /\ pc = "import_write"
    /\ run = 2
    /\ \E i \in 1..Len(wres) :
          /\ ledger.rows[i][2] \notin {"", ErrorKey}
          /\ ledger.rows[i][3] = "0"
          /\ wres[i].calls = 1
          /\ wres[i].key = NewIssueKey(2, i)

\* C12: a record fails if and only if its create-issue step fails: whatever
\* the story-points, status and comment steps return, a record whose issue
\* was created comes back with that issue key and no error, and when
\* ImportIssues returns its ledger row holds that key and Error "0".
C12_OnlyCreateIsFatal ==
    /\ \A i \in 1..Len(wres) :
          wpc[i] \in {"returned", "locked", "recorded", "unlocked", "released",
                      "done"} =>
              (wres[i].err <=> wres[i].key = "")
    /\ (pc = "import_return" /\ retval = "nil") =>
          \A i \in 1..Len(wres) :
              ~wres[i].err =>
                  /\ ledger.rows[i][2] = wres[i].key
                  /\ ledger.rows[i][3] = "0"

\* C13: the calls of one processRecord come in the order create-issue,
\* story points, status, comment, each at most once; a story-points, status
\* or comment call is made only after the create-issue call of the record
\* has succeeded, and none is made when it failed.
StepRank(name) ==
    CASE name = "CreateIssue"       -> 1
      [] name = "UpdateStoryPoints" -> 2
      [] name = "UpdateStatus"      -> 3
      [] name = "AddComment"        -> 4

C13_StepsInOrder ==
    /\ pr.pc # "start" => pr.calls[1].name = "CreateIssue"
    /\ \A k \in 1..(Len(pr.calls) - 1) :
          StepRank(pr.calls[k].name) < StepRank(pr.calls[k + 1].name)
    /\ \A k \in 1..Len(pr.calls) :
          pr.calls[k].name # "CreateIssue" =>
              pr.calls[1].name = "CreateIssue" /\ pr.calls[1].ok
    /\ pr.err => Len(pr.calls) = 1

C13_Witness ==
    /\ pr.pc = "returned"
    /\ Len(pr.calls) = 4
    /\ pr.calls[2].name = "UpdateStoryPoints" /\ ~pr.calls[2].ok
    /\ pr.calls[3].name = "UpdateStatus"
    /\ pr.calls[4].name = "AddComment"

\* C14: a failed creation or a failed upload does not end the batch.  When
\* ImportIssues has joined its goroutines every record has had exactly one
\* create call and errorCount is the number of failed ones; when
\* UploadAttachments has joined its goroutines every file of every folder
\* with a usable key has had exactly one upload call, failedFiles is the
\* number of failed ones and totalFiles = uploadedFiles + failedFiles.
UploadsOf(dir) == {i \in 1..Len(wres) : wres[i].id = dir}

C14_FailureIsolation ==
    /\ pc = "import_write" =>
          /\ Len(wres) = Len(records)
          /\ \A i \in 1..Len(wres) : wres[i].calls = 1
          /\ errorCount = Cardinality(FailedRows)
    /\ pc = "upload_report" =>
          /\ \A k \in 1..Len(AttDirs) :
                Cardinality(UploadsOf(AttDirs[k])) =
                    IF Resolvable(issueMapping, AttDirs[k])
                    THEN attachments[AttDirs[k]] ELSE 0
          /\ \A i \in 1..Len(wres) : wres[i].calls = 1
          /\ counters.failed = Cardinality(FailedRows)
          /\ counters.uploaded = Len(wres) - Cardinality(FailedRows)
          /\ counters.total = counters.uploaded + counters.failed

C14_Witness ==
    /\ pc = "upload_report"
    /\ Len(wres) = 2
    /\ wres[1].err
    /\ ~wres[2].err
    /\ counters = [total |-> 2, uploaded |-> 1, failed |-> 1]

\* The exit code the command-line tools turn the returned error into
\* (cmd/issue_import and cmd/attachment_upload: os.Exit(1) on an error).
ExitCode(result) == IF result = "error" THEN 1 ELSE 0

\* C15: the result of a batch with at least one failed record or file
\* differs from the result of a batch without failures, which is nil (exit
\* code 0): ImportIssues with a failed creation, and UploadAttachments with
\* a failed upload, return a result of another exit code.
C15_ExitReflectsFailures ==
    /\ []((pc = "import_return" /\ FailedRows # {}) =>
             ExitCode(retval) # ExitCode("nil"))
    /\ [][(pc = "upload_report" /\ counters.failed > 0) =>
             ExitCode(retval') # ExitCode("nil")]_vars

\* The usable keys the ledger file holds for a source id.
LedgerKeys(id) ==
    LET idIndex  == ColumnIndex(ledger.header, ColID)
        keyIndex == ColumnIndex(ledger.header, ColKey)
    IN  {ledger.rows[r][keyIndex] :
            r \in {q \in 1..Len(ledger.rows) : ledger.rows[q][idIndex] = id}}
        \ {"", ErrorKey}

\* C16: UploadAttachments makes no upload call for a folder whose id the
\* ledger gives no usable key (no row, an empty key or "ERROR"), and every
\* upload call it makes carries a key the ledger holds for the id of the
\* file's folder.
C16_UploadsFollowLedger ==
    pc \in {"upload_loop", "upload_report"} =>
        /\ \A k \in 1..Len(AttDirs) :
              LedgerKeys(AttDirs[k]) = {} => UploadsOf(AttDirs[k]) = {}
        /\ \A i \in 1..Len(wres) : wres[i].key \in LedgerKeys(wres[i].id)

C16_Witness ==
    /\ pc = "upload_report"
    /\ attachments[AttDirs[1]] = 1
    /\ attachments[AttDirs[2]] = 1
    /\ \E r \in 1..Len(ledger.rows) :
          ledger.rows[r][1] = AttDirs[1] /\ ledger.rows[r][2] = ErrorKey
    /\ UploadsOf(AttDirs[1]) = {}
    /\ Len(wres) = 1
    /\ wres[1].id = AttDirs[2]
    /\ wres[1].calls = 1

\* The response CheckAuth got was the one of valid credentials.
Authenticated ==
    /\ rm.auth # <<>>
    /\ ~rm.auth[Len(rm.auth)].err
    /\ rm.auth[Len(rm.auth)].status = 200

\* C17: RunMigration calls CheckAuth before anything else; for every
\* combination of the flags a failed CheckAuth makes it return an error with
\* none of Convert, Import and UploadAttachments called.
C17_AuthFirst ==
    /\ rm.pc # "start" => rm.auth # <<>>
    /\ rm.phases # <<>> => Authenticated
    /\ (rm.auth # <<>> /\ ~Authenticated) =>
          /\ rm.pc = "returned"
          /\ rm.result \notin {"none", "nil"}
          /\ rm.phases = <<>>

C17_Witness ==
    /\ rm.pc = "returned"
    /\ ~rm.convertOnly /\ ~rm.importOnly /\ ~rm.attachmentsOnly
    /\ rm.auth # <<>>
    /\ rm.auth[Len(rm.auth)].status = 500
    /\ rm.result = AuthError
    /\ rm.phases = <<>>

\* The phases the flags of the call select, in the order of the source
\* (the conditions of lines 335, 343, 348 and 356).
SelectedPhases ==
    (IF ~rm.importOnly /\ ~rm.attachmentsOnly THEN <<"Convert">> ELSE <<>>)
    \o (IF ~rm.convertOnly /\ ~rm.attachmentsOnly THEN <<"Import">> ELSE <<>>)
    \o (IF ~rm.convertOnly /\ (~rm.importOnly \/ rm.attachmentsOnly)
        THEN <<"Upload">> ELSE <<>>)

PhaseNames == [k \in 1..Len(rm.phases) |-> rm.phases[k].name]

\* C18 as stated: after a successful authentication the phases that run
\* are exactly the ones the flags select, whether or not an earlier phase
\* failed.
C18_FlagsAloneGate ==
    (rm.pc = "returned" /\ Authenticated) => PhaseNames = SelectedPhases

\* C18 as amended: the phases that run are the ones the flags select, in
\* order, up to and including the first one that returns an error; that
\* error ends the run and is its result.  Without such an error all the
\* selected phases run and the result is nil.
C18_FlagsAndErrorsGate ==
    (rm.pc = "returned" /\ Authenticated) =>
        /\ Len(PhaseNames) <= Len(SelectedPhases)
        /\ PhaseNames = SubSeq(SelectedPhases, 1, Len(PhaseNames))
        /\ \A k \in 1..(Len(rm.phases) - 1) : rm.phases[k].result = "nil"
        /\ IF rm.phases # <<>> /\ rm.phases[Len(rm.phases)].result # "nil"
           THEN rm.result = rm.phases[Len(rm.phases)].result
           ELSE PhaseNames = SelectedPhases /\ rm.result = "nil"

C18_Witness ==
    /\ rm.pc = "returned"
    /\ ~rm.convertOnly /\ ~rm.importOnly /\ ~rm.attachmentsOnly
    /\ PhaseNames = <<"Convert", "Import">>
    /\ rm.phases[2].result = "read jira csv"
    /\ rm.result = "read jira csv"

\* A sequence that is an initial part of another.
IsPrefix(a, b) == Len(a) <= Len(b) /\ a = SubSeq(b, 1, Len(a))

\* C19: with no flag set RunMigration calls Convert, then Import, then
\* UploadAttachments, in that order and nothing else, and it returns nil
\* only after all three; with exactly one of the flags set it calls the
\* phase of that flag and neither of the other two.
C19_FlagsSelectPhases ==
    /\ (~rm.convertOnly /\ ~rm.importOnly /\ ~rm.attachmentsOnly) =>
          /\ IsPrefix(PhaseNames, <<"Convert", "Import", "Upload">>)
          /\ (rm.pc = "returned" /\ rm.result = "nil") =>
                PhaseNames = <<"Convert", "Import", "Upload">>
    /\ (rm.convertOnly /\ ~rm.importOnly /\ ~rm.attachmentsOnly) =>
          /\ IsPrefix(PhaseNames, <<"Convert">>)
          /\ (rm.pc = "returned" /\ Authenticated) => PhaseNames = <<"Convert">>
    /\ (~rm.convertOnly /\ rm.importOnly /\ ~rm.attachmentsOnly) =>
          /\ IsPrefix(PhaseNames, <<"Import">>)
          /\ (rm.pc = "returned" /\ Authenticated) => PhaseNames = <<"Import">>
    /\ (~rm.convertOnly /\ ~rm.importOnly /\ rm.attachmentsOnly) =>
          /\ IsPrefix(PhaseNames, <<"Upload">>)
          /\ (rm.pc = "returned" /\ Authenticated) => PhaseNames = <<"Upload">>

C19_Witness ==
    /\ rm.pc = "returned"
    /\ ~rm.convertOnly /\ ~rm.importOnly /\ ~rm.attachmentsOnly
    /\ PhaseNames = <<"Convert", "Import", "Upload">>
    /\ rm.phases[1].result = "nil"
    /\ rm.phases[2].result = "nil"

\* C20: when ImportIssues has rewritten, for the first time, a ledger that
\* had no "Error" column, the header row of the file has an "Error" column
\* and every data row has a field in that column: "0" or "1" for a row with
\* an outcome, empty for a row without.
C20_ErrorColumnAdded ==
    (/\ pc = "import_return"
     /\ retval = "nil"
     /\ \A i \in 1..Len(records) : ColError \notin DOMAIN records[i]) =>
        LET errorIndex == ColumnIndex(ledger.header, ColError)
        IN  /\ errorIndex # 0
            /\ \A r \in 1..Len(ledger.rows) :
                  /\ Len(ledger.rows[r]) >= errorIndex
                  /\ ledger.rows[r][errorIndex] =
                        IF HasKey(errorFlags, ledger.rows[r][1])
                        THEN IF errorFlags[ledger.rows[r][1]] THEN "1" ELSE "0"
                        ELSE ""

\* C21: the ledger is rewritten atomically.  Whatever step of the rewrite
\* changes the ledger file takes it, in that one step, from the content it
\* had to the complete merge of that content with the outcomes: the file
\* never holds an empty or partly written ledger, also when the rewrite is
\* interrupted or a write fails.
C21_AtomicRewrite ==
    [][ledger' # ledger =>
          ledger' = UpdateJiraKeysWithErrorFlags(ledger, resultMapping,
                                                 errorFlags).file]_vars

\* C22: the shared aggregation state is never written concurrently.  At
\* most one goroutine of ImportIssues is between resultMutex.Lock and
\* Unlock, and it is the holder of the lock; the result mapping, the error
\* flags and the error counter change only in a step of that holder.  At
\* most one goroutine of UploadAttachments is between countMutex.Lock and
\* Unlock; the counters change only in a step of that holder, or in a step
\* of the dispatching goroutine while no worker holds the lock.  The ledger
\* file changes only in the rewrite, after every worker is done.
Aggregating == {i \in 1..Len(wpc) : wpc[i] \in {"locked", "recorded"}}
Counting == {i \in 1..Len(wpc) : wpc[i] \in {"ulocked", "ucounted"}}

C22_NoConcurrentWrites ==
    /\ [](/\ Cardinality(Aggregating) <= 1
          /\ Cardinality(Counting) <= 1
          /\ \A i \in Aggregating : resultMutex = i
          /\ \A i \in Counting : countMutex = i)
    /\ [][/\ (pc = "import_loop"
              /\ <<resultMapping, errorFlags, errorCount>>'
                    # <<resultMapping, errorFlags, errorCount>>) =>
                 /\ resultMutex \in 1..Len(wpc)
                 /\ wpc[resultMutex] = "locked"
                 /\ wpc'[resultMutex] = "recorded"
          /\ (pc = "upload_loop" /\ counters' # counters) =>
                 \/ /\ countMutex \in 1..Len(wpc)
                    /\ wpc[countMutex] = "ulocked"
                    /\ wpc'[countMutex] = "ucounted"
                 \/ /\ countMutex = 0
                    /\ Counting = {}
                    /\ wpc' = wpc
          /\ ledger' # ledger => (pc = "import_write" /\ AllDone)]_vars

C22_Witness ==
    /\ pc = "import_loop"
    /\ \E i \in 1..Len(wpc), j \in 1..Len(wpc) :
          /\ wpc[i] = "recorded"
          /\ wpc[j] = "returned"
          /\ resultMapping # EmptyMap

\* C23: the limit that sizes the worker pools is at least 1.  Once the
\* environment and the command line have been read, cfg.MaxConcurrent is
\* 1 or more, whatever MAX_CONCURRENT and -concurrent were.
C23_LimitAtLeastOne ==
    pc \notin {"config_env", "config_flag"} => MaxConcurrent >= 1

\* C24: a target status that is "backlog" in any letter case makes no
\* remote call.  UpdateStatus on such a status has one run, which returns
\* nil and sends no request; and a record whose "JIRA Status" is such a
\* status goes through processRecord without a transition lookup and
\* without a transition request, every UpdateStatus call made for it
\* returning nil.
IsBacklog(status) == ToLower(status) = "backlog"
TransitionRequests ==
    {k \in 1..Len(pr.requests) :
        pr.requests[k] \in {GetTransitionsReq, PostTransitionReq}}

C24_BacklogMakesNoCall ==
    /\ \A status \in StatusValues :
          IsBacklog(status) =>
              UpdateStatus(status) = {[ok |-> TRUE, requests |-> <<>>]}
    /\ IsBacklog(Field(pr.rec, ColStatus)) =>
          /\ TransitionRequests = {}
          /\ \A k \in 1..Len(pr.calls) :
                pr.calls[k].name = "UpdateStatus" => pr.calls[k].ok

C24_Witness ==
    /\ pr.pc = "returned"
    /\ Field(pr.rec, ColStatus) = "BACKLOG"
    /\ \E k \in 1..Len(pr.calls) :
          pr.calls[k] = [name |-> "UpdateStatus", ok |-> TRUE]
    /\ TransitionRequests = {}

\* C25: the issue type sent to CreateIssue follows the record's "Type"
\* without regard to letter case: bug gives "Bug", feature and story give
\* "feature", chore gives "chore", epic gives "Epic", release gives
\* "release"; any other value, an empty value and a record without the
\* field give "Task".
C25_IssueTypeMapping ==
    pr.pc # "start" =>
        LET type == IF ColType \in DOMAIN pr.rec THEN pr.rec[ColType] ELSE ""
        IN  pr.issueType =
                CASE type \in {"bug", "Bug"}       -> "Bug"
                  [] type \in {"feature", "Story"} -> "feature"
                  [] type = "chore"                -> "chore"
                  [] type = "EPIC"                 -> "Epic"
                  [] type = "release"              -> "release"
                  [] type \in {"", "spike"}        -> "Task"

C25_Witness ==
    /\ pr.pc = "returned"
    /\ ColType \in DOMAIN pr.rec
    /\ pr.rec[ColType] = "Story"
    /\ pr.issueType = "feature"
    /\ pr.calls[1].name = "CreateIssue"

\* C26: the ledger ImportIssues has written can be read back.  When
\* ImportIssues returns nil, the header and every data row of the file
\* have the same number of fields, ReadCSV and LoadIssueMapping succeed on
\* it, and the mapping LoadIssueMapping returns holds exactly the pairs
\* id -> key of the records whose creation succeeded.
C26_LedgerRoundTrip ==
    (pc = "import_return" /\ retval = "nil") =>
        LET m == LoadIssueMapping(ledger)
        IN  /\ ReadAllOk(ledger)
            /\ ~ReadCSV(ledger).err
            /\ ~m.err
            /\ \A i \in 1..Len(wres) :
                  ~wres[i].err => /\ HasKey(m.mapping, wres[i].id)
                                  /\ m.mapping[wres[i].id] = wres[i].key
            /\ \A id \in DOMAIN m.mapping :
                  \E i \in 1..Len(wres) :
                      /\ wres[i].id = id
                      /\ ~wres[i].err
                      /\ wres[i].key = m.mapping[id]

\* C27: deadlock freedom and termination.  With a limit of 1 or more and
\* a scheduler that lets some runnable goroutine step, a call of
\* ImportIssues or UploadAttachments that has started returns; and at the
\* end of the wait every goroutine is done, the wait group is at zero and
\* every slot of the semaphore has been given back.
Running ==
    pc \in {"import_loop", "import_write", "import_return",
            "upload_loop", "upload_report"}

C27_Terminates ==
    /\ Running ~> (pc = "idle")
    /\ [](pc \in {"import_write", "import_return", "upload_report"} =>
              /\ AllDone
              /\ wg = 0
              /\ semaphore = 0)

C27_Witness ==
    /\ pc = "import_loop"
    /\ MaxConcurrent >= 1
    /\ idx < Len(records)
    /\ semaphore = MaxConcurrent
    /\ resultMutex # 0

\* C28: for every ledger, also one whose rows share an id or have an empty
\* one, the counts ImportIssues reports are not negative and add up to the
\* number of records processed, and a row of the rewritten ledger has "1"
\* in the Error field only if the creation for the record of that row
\* failed.
C28_CountsAddUp ==
    (pc = "import_return" /\ retval = "nil") =>
        /\ report.success >= 0
        /\ report.failure >= 0
        /\ report.success + report.failure = Len(records)
        /\ \A r \in 1..Len(ledger.rows) :
              ledger.rows[r][3] = "1" => r \in FailedRows

\* C29: no created issue is lost.  When ImportIssues returns an error, the
\* key of every issue a CreateIssue call of the run has created is in the
\* ledger file: a ledger without a needed column is refused before any
\* issue is created.
KeysInLedger ==
    UNION { {ledger.rows[r][c] : c \in 1..Len(ledger.rows[r])} :
            r \in 1..Len(ledger.rows) }

C29_NoIssueLost ==
    (op = "import" /\ pc = "import_return" /\ retval = "error") =>
        \A i \in 1..Len(wres) :
            wres[i].key # "" => wres[i].key \in KeysInLedger

\* C30: for each of the eight combinations of the flags, a call of
\* RunMigration that is authenticated and returns nil has run at least one
\* phase, and has run every phase a set flag names.
PhasesRun == {rm.phases[k].name : k \in 1..Len(rm.phases)}

C30_FlaggedPhasesRun ==
    (rm.pc = "returned" /\ Authenticated /\ rm.result = "nil") =>
        /\ PhasesRun # {}
        /\ rm.convertOnly => "Convert" \in PhasesRun
        /\ rm.importOnly => "Import" \in PhasesRun
        /\ rm.attachmentsOnly => "Upload" \in PhasesRun
====
